---- MODULE Spec2Model ----
(***************************************************************************)
(* Model of the clause extraction and patch-application engine of          *)
(* lexflow-architect:                                                      *)
(*   backend/services/parser.py   LegalDocParser                           *)
(*   services/legal_patch.py      LegalPatchApplier                        *)
(*   backend/models/legal_objects.py  Clause, LegalPatch                   *)
(*                                                                         *)
(* Text is modelled as a sequence of symbols.  A symbol is one character,  *)
(* except that the keywords "Article" and "Section" (in either case) are   *)
(* one symbol each: the regular expressions of the parser only ever test   *)
(* a keyword as a whole.                                                   *)
(***************************************************************************)
EXTENDS Integers, Sequences, FiniteSets, TLC

\* ---------------------------------------------------------------- bounds
MaxParas == 4        \* paragraphs of a parsed document
MaxPatches == 2      \* chained Patch Applier calls

None == 0            \* Python None for an id (ids are positive)

\* ------------------------------------------------------- character classes
ArticleKw == {"Article", "ARTICLE"}
SectionKw == {"Section", "SECTION"}

\* \s of the re module
SpaceSet == {" ", "\n"}
IsSpace(c) == c \in SpaceSet

\* \d
DigitSet == {"1", "2"}
IsDigit(c) == c \in DigitSet

\* [IVXLC] under re.IGNORECASE
RomanSet == {"I", "i", "V", "v"}    \* X, L and C behave as I and V

\* \w: letters and digits (a keyword is a run of letters; "a" is a letter
\* outside [IVXLC])
IsWord(c) == c \in {"a"} \cup DigitSet \cup RomanSet \cup ArticleKw \cup SectionKw

\* str.lower() of one symbol
LowerChar(c) ==
    CASE c = "I" -> "i"
      [] c = "V" -> "v"
      [] c \in ArticleKw -> "article"
      [] c \in SectionKw -> "section"
      [] OTHER -> c

\* str.lower()
Lower(s) == [i \in 1..Len(s) |-> LowerChar(s[i])]

\* ------------------------------------------------------------ str methods
\* s.strip(chars): drop the leading and trailing symbols that are in chars
StripChars(s, chars) ==
    LET keep == {i \in 1..Len(s) : s[i] \notin chars}
    IN  IF keep = {} THEN <<>>
        ELSE LET lo == CHOOSE i \in keep : \A j \in keep : i <= j
                 hi == CHOOSE i \in keep : \A j \in keep : j <= i
             IN  SubSeq(s, lo, hi)

\* s.strip()
Strip(s) == StripChars(s, SpaceSet)

\* "\n\n"
BlankLine == <<"\n", "\n">>

\* "\n\n".join(parts)
RECURSIVE JoinBlank(_)
JoinBlank(parts) ==
    IF Len(parts) = 0 THEN <<>>
    ELSE IF Len(parts) = 1 THEN parts[1]
    ELSE parts[1] \o BlankLine \o JoinBlank(Tail(parts))

\* re.sub(r"\s+", " ", text).strip()
RECURSIVE CollapseSpace(_)
CollapseSpace(s) ==
    IF Len(s) = 0 THEN <<>>
    ELSE IF IsSpace(s[1])
         THEN IF Len(s) > 1 /\ IsSpace(s[2])
              THEN CollapseSpace(Tail(s))
              ELSE <<" ">> \o CollapseSpace(Tail(s))
         ELSE <<s[1]>> \o CollapseSpace(Tail(s))

_normalize_header_title(text) == Strip(CollapseSpace(text))

\* ------------------------------------------------------- regex primitives
\* index of the last symbol of the maximal run of symbols satisfying the
\* class, starting at i (i - 1 when the run is empty)
RECURSIVE RunEnd(_, _, _)
RunEnd(s, i, cls) ==
    IF i <= Len(s) /\ s[i] \in cls THEN RunEnd(s, i + 1, cls) ELSE i - 1

\* \b between position e and e + 1, where s[e] is a word symbol
BoundaryAfter(s, e) == e = Len(s) \/ ~IsWord(s[e + 1])

\* \b between position i - 1 and i, where s[i] is a word symbol
BoundaryBefore(s, i) == i = 1 \/ ~IsWord(s[i - 1])

\* (?:\d+|[IVXLC]+)\b starting at j: index of the last symbol of the number,
\* 0 when there is no match.  A shorter run never ends at a word boundary,
\* so only the maximal run of each alternative can match.
ArticleNumEnd(s, j) ==
    LET de == RunEnd(s, j, DigitSet)
        re == RunEnd(s, j, RomanSet)
    IN  IF de >= j /\ BoundaryAfter(s, de) THEN de
        ELSE IF re >= j /\ BoundaryAfter(s, re) THEN re
        ELSE 0

\* end of the greedy \d+(?:\.\d+)* starting at j, where s[j] is a digit
RECURSIVE DottedEnd(_, _)
DottedEnd(s, j) ==
    LET e == RunEnd(s, j, DigitSet)
    IN  IF e + 2 <= Len(s) /\ s[e + 1] = "." /\ IsDigit(s[e + 2])
        THEN DottedEnd(s, e + 2)
        ELSE e

\* start of the last \.\d+ group of the dotted number s[j..e] (the index of
\* its "."), 0 when the number has one group only
LastDot(s, j, e) ==
    LET dots == {i \in j..e : s[i] = "."}
    IN  IF dots = {} THEN 0 ELSE CHOOSE i \in dots : \A k \in dots : k <= i

\* \d+(?:\.\d+)*\b starting at j: index of the last symbol of the number, 0
\* when there is no match.  When the greedy match does not end at a word
\* boundary the engine gives up the last group, which ends before a ".".
SectionNumEnd(s, j) ==
    IF j > Len(s) \/ ~IsDigit(s[j]) THEN 0
    ELSE LET e == DottedEnd(s, j)
             d == LastDot(s, j, e)
         IN  IF BoundaryAfter(s, e) THEN e
             ELSE IF d > 0 THEN d - 1
             ELSE 0

\* number of "."-separated parts of the number: len(num.split("."))
\* mutant of Depth: the number of dots, not of segments
DepthCountsDots(num) == Cardinality({i \in 1..Len(num) : num[i] = "."})

Depth(num) == 1 + Cardinality({i \in 1..Len(num) : num[i] = "."})

\* ---------------------------------------------------------- Header Matcher
NoHeader == [matched |-> FALSE, header_type |-> "", number |-> <<>>,
             remainder |-> <<>>, level |-> 0]

\* the symbols stripped from the remainder: " \t-:." and the dashes
RestStrip == {" ", "-", ":", "."}

\* (?P<rest>.*)$ from position r: "." matches no newline and "$" matches at
\* the end or before one final newline; 0 when there is no match, else the
\* index of the last symbol of rest (r - 1 when rest is empty)
RestEnd(s, r) ==
    LET last == IF Len(s) >= r /\ s[Len(s)] = "\n" THEN Len(s) - 1 ELSE Len(s)
    IN  IF \E i \in r..last : s[i] = "\n" THEN 0 ELSE last

\* _ARTICLE_RE.match(text) and _SECTION_RE.match(text) share
\* ^\s*<keyword>\s+ : index of the first symbol of the number, 0 when the
\* prefix does not match
NumStart(s, kw) ==
    LET k == RunEnd(s, 1, SpaceSet) + 1
        e == RunEnd(s, k + 1, SpaceSet)
    IN  IF k <= Len(s) /\ s[k] \in kw /\ e >= k + 1 THEN e + 1 ELSE 0

_match_header(text) ==
    LET aj == NumStart(text, ArticleKw)
        ae == IF aj = 0 THEN 0 ELSE ArticleNumEnd(text, aj)
        ar == IF ae = 0 THEN 0 ELSE RestEnd(text, ae + 1)
        sj == NumStart(text, SectionKw)
        se == IF sj = 0 THEN 0 ELSE SectionNumEnd(text, sj)
        sr == IF se = 0 THEN 0 ELSE RestEnd(text, se + 1)
    IN  IF ae > 0 /\ ar > 0
        THEN [matched |-> TRUE, header_type |-> "article",
              number |-> SubSeq(text, aj, ae),
              remainder |-> StripChars(SubSeq(text, ae + 1, ar), RestStrip),
              level |-> 1]
        ELSE IF se > 0 /\ sr > 0
        THEN [matched |-> TRUE, header_type |-> "section",
              number |-> SubSeq(text, sj, se),
              remainder |-> StripChars(SubSeq(text, se + 1, sr), RestStrip),
              level |-> 2 + (IF Depth(SubSeq(text, sj, se)) - 1 > 0
                             THEN Depth(SubSeq(text, sj, se)) - 1 ELSE 0)]
        ELSE NoHeader

\* _header_key(title): "article <num>" / "section <num>", lower-cased number;
\* <<>> stands for None
_header_key(title) ==
    LET h == _match_header(title)
    IN  IF ~h.matched THEN <<>>
        ELSE <<h.header_type, " ">> \o Lower(h.number)

\* ------------------------------------------------------ in-text references
\* _REF_RE tried at position i: index of the last symbol of the match, 0
\* when there is no match at i
RefMatchEnd(s, i) ==
    IF ~BoundaryBefore(s, i) THEN 0
    ELSE LET e == RunEnd(s, i + 1, SpaceSet)
         IN  IF e < i + 1 THEN 0
             ELSE IF s[i] \in ArticleKw THEN ArticleNumEnd(s, e + 1)
             ELSE IF s[i] \in SectionKw THEN SectionNumEnd(s, e + 1)
             ELSE 0

\* the key of the match of _REF_RE at i that ends at e
RefKey(s, i, e) ==
    LET j == RunEnd(s, i + 1, SpaceSet) + 1
    IN  <<(IF s[i] \in ArticleKw THEN "article" ELSE "section"), " ">>
            \o Lower(SubSeq(s, j, e))

\* _REF_RE.finditer(text) from position i on: the keys of the successive
\* non-overlapping matches
RECURSIVE FindFrom(_, _)
FindFrom(s, i) ==
    IF i > Len(s) THEN <<>>
    ELSE LET e == RefMatchEnd(s, i)
         IN  IF e > 0 THEN <<RefKey(s, i, e)>> \o FindFrom(s, e + 1)
             ELSE FindFrom(s, i + 1)

_find_reference_keys(text) == FindFrom(text, 1)

\* ----------------------------------------------------- Formatting Extractor
\* WD_ALIGN_PARAGRAPH(value).name
AlignName(v) ==
    CASE v = 0 -> "LEFT"
      [] v = 1 -> "CENTER"
      [] v = 2 -> "RIGHT"
      [] OTHER -> "JUSTIFY"

\* para.alignment is None
NoAlign == -1

\* reading para.alignment raises
AlignRaises == -2

\* a value of para.alignment that WD_ALIGN_PARAGRAPH does not have
AlignInvalid == 9

\* the values WD_ALIGN_PARAGRAPH(value) accepts
AlignValues == 0..3

\* a paragraph of the document: text, alignment, runs (bold and italic are
\* "True", "False", "None", or "Raises" when reading the flag raises), style
\* name ("None" for no style, "Raises" when reading it raises)

\* the try/except around the alignment: the handler reads para.alignment
\* again, so a read that raises leaves the function, and a value that the
\* enum rejects becomes str(value)
ReadAlignment(para) ==
    CASE para.alignment = AlignRaises -> [raised |-> TRUE, value |-> "None"]
      [] para.alignment = NoAlign -> [raised |-> FALSE, value |-> "None"]
      [] para.alignment \in AlignValues ->
            [raised |-> FALSE, value |-> AlignName(para.alignment)]
      [] OTHER -> [raised |-> FALSE, value |-> ToString(para.alignment)]

\* the loop over para.runs from run i on: run.bold and run.italic are read
\* outside any try
RECURSIVE ReadRuns(_, _, _, _)
ReadRuns(runs, i, bold, italic) ==
    IF i > Len(runs) \/ (bold /\ italic)
    THEN [raised |-> FALSE, bold |-> bold, italic |-> italic]
    ELSE IF runs[i].bold = "Raises" \/ runs[i].italic = "Raises"
    THEN [raised |-> TRUE, bold |-> bold, italic |-> italic]
    ELSE ReadRuns(runs, i + 1, bold \/ runs[i].bold = "True",
                  italic \/ runs[i].italic = "True")

\* the try/except around the style: a read that raises gives None
ReadStyle(para) == IF para.style = "Raises" THEN "None" ELSE para.style

\* an exception leaves _extract_paragraph_formatting
FormattingRaises(para) ==
    ReadAlignment(para).raised \/ ReadRuns(para.runs, 1, FALSE, FALSE).raised

\* the descriptor returned when nothing is raised
_extract_paragraph_formatting(para) ==
    [bold |-> ReadRuns(para.runs, 1, FALSE, FALSE).bold,
     italic |-> ReadRuns(para.runs, 1, FALSE, FALSE).italic,
     alignment |-> ReadAlignment(para).value,
     style |-> ReadStyle(para)]

\* the empty dict {}
EmptyDict == [empty |-> TRUE]

\* -------------------------------------------------------- the input domain
PlainRun == [bold |-> "None", italic |-> "None"]
BoldRun == [bold |-> "True", italic |-> "False"]
BrokenRun == [bold |-> "Raises", italic |-> "None"]

Para(text, alignment, runs, style) ==
    [text |-> text, alignment |-> alignment, runs |-> runs, style |-> style]

\* the paragraphs a document is made of
Paras ==
    { Para(<<"Article", " ", "1">>, NoAlign, <<PlainRun>>, "Heading 1"),
      Para(<<" ", "ARTICLE", " ", " ", "2", ":", "a">>, 1, <<BoldRun>>, "None"),
      Para(<<"Section", " ", "1">>, NoAlign, <<PlainRun>>, "None"),
      Para(<<"Section", " ", "1", ".", "1", " ">>, NoAlign, <<>>, "None"),
      Para(<<"a">>, NoAlign, <<PlainRun, BoldRun>>, "Normal"),
      Para(<<" ">>, AlignRaises, <<>>, "None"),
      Para(<<"a", " ", "Article", " ", "1", " ", "Section", " ", "1">>,
           NoAlign, <<PlainRun>>, "Normal"),
      Para(<<"Section", " ", "1", "a">>, NoAlign, <<PlainRun>>, "Normal"),
      Para(<<"Article", " ", "V">>, AlignInvalid, <<PlainRun>>, "Raises"),
      Para(<<"a", " ", "a">>, AlignRaises, <<PlainRun>>, "None"),
      Para(<<"Section", " ", "2">>, NoAlign, <<BoldRun, BrokenRun>>, "None") }

\* ------------------------------------------------------ Clause Tree Builder
VARIABLES
    doc,              \* the paragraphs of doc.paragraphs read so far
    clauses,          \* the list of Clause objects under construction
    stack,            \* the nesting stack: (level, clause) pairs; a clause
                      \* object is named by its position in clauses
    preamble_clause,  \* position of the Preamble clause, None before it exists
    pc,               \* "scan", "parsed" (list returned), "referenced",
                      \* "failed" (an exception left the parse)
    refs              \* the result of extract_references

\* str(uuid.uuid4()) of the n-th clause created: a fresh identifier
NewId(n) == 10 + n

\* _new_clause
_new_clause(id, title, parent_id, header, header_formatting) ==
    [id |-> id,
     order_index |-> 0,
     title |-> title,
     text |-> <<>>,
     parent_id |-> parent_id,
     metadata |-> [header |-> [type |-> header.header_type,
                               number |-> header.number,
                               remainder |-> Strip(header.remainder),
                               level |-> header.level],
                   header_formatting |-> header_formatting,
                   paragraphs |-> <<>>]]

\* _append_paragraph (metadata["paragraphs"] is always a list here)
_append_paragraph(clause, text, formatting) ==
    LET existing == Strip(clause.text)
    IN  [clause EXCEPT
            !.metadata.paragraphs =
                Append(@, [text |-> text, formatting |-> formatting]),
            !.text = IF existing # <<>>
                     THEN Strip(existing \o BlankLine \o text)
                     ELSE text]

\* mutant of _parent_id_for_level: existing_level <= level
ParentIdLevelLe(cs, st, level) ==
    LET lower == {i \in 1..Len(st) : st[i].level <= level}
    IN  IF lower = {} THEN None
        ELSE cs[st[CHOOSE i \in lower : \A j \in lower : j <= i].clause].id

\* mutant of _parent_id_for_level: only the top of the stack is looked at
ParentIdTopOnly(cs, st, level) ==
    IF Len(st) > 0 /\ st[Len(st)].level < level
    THEN cs[st[Len(st)].clause].id
    ELSE None

\* _parent_id_for_level: the id of the innermost stack entry of lower level
_parent_id_for_level(cs, st, level) ==
    LET lower == {i \in 1..Len(st) : st[i].level < level}
    IN  IF lower = {} THEN None
        ELSE cs[st[CHOOSE i \in lower : \A j \in lower : j <= i].clause].id

\* mutant of PopStack: stack[-1][0] > header.level
RECURSIVE PopStackStrict(_, _)
PopStackStrict(st, level) ==
    IF Len(st) > 0 /\ st[Len(st)].level > level
    THEN PopStackStrict(SubSeq(st, 1, Len(st) - 1), level)
    ELSE st

\* while stack and stack[-1][0] >= header.level: stack.pop()
RECURSIVE PopStack(_, _)
PopStack(st, level) ==
    IF Len(st) > 0 /\ st[Len(st)].level >= level
    THEN PopStack(SubSeq(st, 1, Len(st) - 1), level)
    ELSE st

PreambleHeader == [matched |-> TRUE, header_type |-> "preamble",
                   number |-> <<>>, remainder |-> <<>>, level |-> 1]

\* mutant of CurrentContainer: the Preamble clause is not reused
CurrentContainerNoReuse(s) ==
    IF Len(s.stack) > 0 THEN s.stack[Len(s.stack)].clause
    ELSE None

\* the clause a body paragraph goes to: the top of the stack, else the
\* Preamble clause (None when it has to be created first)
CurrentContainer(s) ==
    IF Len(s.stack) > 0 THEN s.stack[Len(s.stack)].clause
    ELSE s.preamble_clause

\* one iteration of the loop of _parse_document on the paragraph para, from
\* the state s = [clauses, stack, preamble_clause]
ScanStep(s, para) ==
    LET text == Strip(para.text)
        header == _match_header(text)
        formatting == _extract_paragraph_formatting(para)
        n == Len(s.clauses)
        current == CurrentContainer(s)
    IN  IF text = <<>> THEN s
        ELSE IF header.matched
        THEN [s EXCEPT
                !.clauses = Append(@, _new_clause(NewId(n + 1),
                                _normalize_header_title(text),
                                _parent_id_for_level(s.clauses, s.stack, header.level),
                                header, formatting)),
                !.stack = Append(PopStack(@, header.level),
                                 [level |-> header.level, clause |-> n + 1])]
        ELSE IF current # None
        THEN [s EXCEPT
                !.clauses[current] = _append_paragraph(@, text, formatting)]
        ELSE [s EXCEPT
                !.clauses = Append(@, _append_paragraph(
                                _new_clause(NewId(n + 1), <<"Preamble">>, None,
                                            PreambleHeader, EmptyDict),
                                text, formatting)),
                !.preamble_clause = n + 1]

\* mutant of AssignOrder: enumerate(clauses, 1)
AssignOrderFromOne(cs) == [i \in 1..Len(cs) |-> [cs[i] EXCEPT !.order_index = i]]

\* for idx, clause in enumerate(clauses): clause.order_index = idx
AssignOrder(cs) == [i \in 1..Len(cs) |-> [cs[i] EXCEPT !.order_index = i - 1]]

\* _parse_document as a function of the whole paragraph list
RECURSIVE ScanAll(_, _)
ScanAll(s, d) == IF d = <<>> THEN s ELSE ScanAll(ScanStep(s, Head(d)), Tail(d))

ScanInit == [clauses |-> <<>>, stack |-> <<>>, preamble_clause |-> None]

_parse_document(d) == AssignOrder(ScanAll(ScanInit, d).clauses)

\* ------------------------------------------------------ Reference Extractor
\* mutant of KeyToId: key_to_id.setdefault(key, c.id), the first clause wins
RECURSIVE KeyToIdFirstWins(_, _)
KeyToIdFirstWins(cs, n) ==
    IF n = 0 THEN [k \in {} |-> None]
    ELSE LET d == KeyToIdFirstWins(cs, n - 1)
             key == _header_key(cs[n].title)
         IN  IF cs[n].title = <<>> \/ key = <<>> \/ key \in DOMAIN d THEN d
             ELSE [k \in DOMAIN d \cup {key} |->
                      IF k = key THEN cs[n].id ELSE d[k]]

\* the first loop of extract_references: the dict key_to_id after the first
\* n clauses (a later clause overwrites the entry of an earlier one)
RECURSIVE KeyToId(_, _)
KeyToId(cs, n) ==
    IF n = 0 THEN [k \in {} |-> None]
    ELSE LET d == KeyToId(cs, n - 1)
             key == _header_key(cs[n].title)
         IN  IF cs[n].title = <<>> \/ key = <<>> THEN d
             ELSE [k \in DOMAIN d \cup {key} |->
                      IF k = key THEN cs[n].id ELSE d[k]]

\* mutant of RefsOfKeys: self-references are kept
RECURSIVE RefsOfKeysKeepSelf(_, _, _)
RefsOfKeysKeepSelf(c, keys, d) ==
    IF keys = <<>> THEN <<>>
    ELSE LET k == Head(keys)
             target_id == IF k \in DOMAIN d THEN d[k] ELSE None
         IN  (IF target_id = None THEN <<>>
              ELSE <<[src |-> c.id, dst |-> target_id, kind |-> k]>>)
             \o RefsOfKeysKeepSelf(c, Tail(keys), d)

\* the inner loop of extract_references for one clause c over keys
RECURSIVE RefsOfKeys(_, _, _)
RefsOfKeys(c, keys, d) ==
    IF keys = <<>> THEN <<>>
    ELSE LET k == Head(keys)
             target_id == IF k \in DOMAIN d THEN d[k] ELSE None
         IN  (IF target_id = None \/ target_id = c.id THEN <<>>
              ELSE <<[src |-> c.id, dst |-> target_id, kind |-> k]>>)
             \o RefsOfKeys(c, Tail(keys), d)

\* the second loop of extract_references over the clauses from position i
RECURSIVE RefsFrom(_, _, _)
RefsFrom(cs, i, d) ==
    IF i > Len(cs) THEN <<>>
    ELSE RefsOfKeys(cs[i], _find_reference_keys(cs[i].text), d)
         \o RefsFrom(cs, i + 1, d)

extract_references(cs) == RefsFrom(cs, 1, KeyToId(cs, Len(cs)))

\* ------------------------------------------------------------ Patch Applier
(***************************************************************************)
(* The Patch Applier works on Python objects that can be shared, so its    *)
(* clause lists live in a heap: a sequence of objects, an object reference *)
(* being a position in it (0 for a missing dict key).  A Clause object     *)
(* refers to its metadata dict, which refers to its "paragraphs" and       *)
(* "legal_patches" lists.  The paragraph dicts, the formatting dicts and   *)
(* the patch dumps are never changed in place and are kept as values.      *)
(***************************************************************************)
VARIABLES
    heap,     \* the objects
    cur,      \* the caller's current clause list: a sequence of references
    calls     \* the Patch Applier calls made so far, in order

\* --------------------------------------------------------- graph and export
VARIABLES
    id_order,  \* the ids of the parsed clauses in the order of their
               \* strings, the order of ORDER BY c.id; <<>> while no
               \* document is stored
    graph,     \* the graph database
    export     \* the outcome of the last export_to_docx

storeVars == <<id_order, graph, export>>

vars == <<doc, clauses, stack, preamble_clause, pc, refs, heap, cur, calls,
          id_order, graph, export>>

\* the database before any ingest
EmptyGraph ==
    [documents |-> {}, nodes |-> {}, contains |-> {}, children |-> {},
     references |-> {}]

\* no export was asked for
NoExport == [status |-> "none", blocks |-> <<>>]

\* document_id = str(uuid.uuid4()) of the one document
DocumentId == "doc"

\* _clause_row: the properties stored for a clause; order_index is not one
\* of them
_clause_row(c) ==
    [id |-> c.id, title |-> c.title, text |-> c.text,
     parent_id |-> c.parent_id, metadata_json |-> c.metadata]

\* ingest_document and _ingest_tx: the Document node, a Clause node per
\* clause, a CONTAINS edge from the document to every clause without
\* parent_id, a CONTAINS edge from every parent to its child, a REFERENCES
\* edge per reference
ingest_document(g, document_id, cs, references) ==
    [documents |-> g.documents \cup {document_id},
     nodes |-> {n \in g.nodes : \A i \in 1..Len(cs) : n.id # cs[i].id}
               \cup {_clause_row(cs[i]) : i \in 1..Len(cs)},
     contains |-> g.contains \cup
               {[document |-> document_id, clause |-> cs[i].id] :
                    i \in {j \in 1..Len(cs) : cs[j].parent_id = None}},
     children |-> g.children \cup
               {[parent_id |-> cs[i].parent_id, child_id |-> cs[i].id] :
                    i \in {j \in 1..Len(cs) : cs[j].parent_id # None}},
     references |-> g.references \cup
               {references[i] : i \in 1..Len(references)}]

\* MATCH (d:Document {id: $doc_id})-[:CONTAINS]->(c:Clause) ... ORDER BY
\* c.id: the clause nodes the document has an edge to, in the order of their
\* ids; order is the list of the ids not yet looked at, ascending
RECURSIVE Records(_, _, _)
Records(g, document_id, order) ==
    IF order = <<>> THEN <<>>
    ELSE (IF [document |-> document_id, clause |-> order[1]] \in g.contains
          THEN <<CHOOSE n \in g.nodes : n.id = order[1]>> ELSE <<>>)
         \o Records(g, document_id, Tail(order))

\* the body of the loop over the records: add_heading(title, level=2) if
\* title, add_paragraph(text) if text
BlocksOfRecord(title, text) ==
    (IF title # <<>>
     THEN <<[kind |-> "heading", level |-> 2, text |-> title]>> ELSE <<>>)
    \o (IF text # <<>> THEN <<[kind |-> "paragraph", text |-> text]>> ELSE <<>>)

RECURSIVE BlocksOfRecords(_)
BlocksOfRecords(records) ==
    IF records = <<>> THEN <<>>
    ELSE BlocksOfRecord(records[1].title, records[1].text)
         \o BlocksOfRecords(Tail(records))

\* export_to_docx
export_to_docx(g, document_id, order) ==
    LET records == Records(g, document_id, order)
    IN  IF records = <<>>
        THEN [status |-> "DocumentNotFoundError", blocks |-> <<>>]
        ELSE [status |-> "ok", blocks |-> BlocksOfRecords(records)]

\* the Clause object, the metadata dict and the paragraphs list of a parsed
\* clause value c, allocated after the objects of h
StoreClause(h, c) ==
    LET n == Len(h)
    IN  h \o << [kind |-> "list", items |-> c.metadata.paragraphs],
                [kind |-> "dict", header |-> c.metadata.header,
                 header_formatting |-> c.metadata.header_formatting,
                 paragraphs |-> n + 1, legal_patches |-> 0],
                [kind |-> "Clause", id |-> c.id, order_index |-> c.order_index,
                 title |-> c.title, text |-> c.text, parent_id |-> c.parent_id,
                 metadata |-> n + 2] >>

\* the objects of the clause list cs returned by the parser
RECURSIVE StoreList(_, _)
StoreList(h, cs) ==
    IF cs = <<>> THEN [heap |-> h, list |-> <<>>]
    ELSE LET h1 == StoreClause(h, Head(cs))
             r == StoreList(h1, Tail(cs))
         IN  [heap |-> r.heap, list |-> <<Len(h1)>> \o r.list]

\* the items of the list object at reference r (<<>> for a missing key)
Items(h, r) == IF r = 0 THEN <<>> ELSE h[r].items

\* the value of the Clause object at reference r: every field, with the
\* metadata dict and its lists read through
ClauseValue(h, r) ==
    LET c == h[r]
        m == h[c.metadata]
    IN  [id |-> c.id, order_index |-> c.order_index, title |-> c.title,
         text |-> c.text, parent_id |-> c.parent_id,
         metadata |-> [header |-> m.header,
                       header_formatting |-> m.header_formatting,
                       has_paragraphs |-> m.paragraphs # 0,
                       paragraphs |-> Items(h, m.paragraphs),
                       has_legal_patches |-> m.legal_patches # 0,
                       legal_patches |-> Items(h, m.legal_patches)]]

\* the value of a clause list
ListValue(h, list) == [i \in 1..Len(list) |-> ClauseValue(h, list[i])]

\* the references of the objects a clause list is made of
Reach(h, list) ==
    UNION { {list[i], h[list[i]].metadata,
             h[h[list[i]].metadata].paragraphs,
             h[h[list[i]].metadata].legal_patches} \ {0} : i \in 1..Len(list) }

\* mutant of _copy_clause: clause.model_copy(), a shallow copy that shares
\* the metadata dict
CopyClauseShallow(h, r) == Append(h, h[r])

\* mutant of _copy_clause: the copy is rebuilt from the clause's fields and
\* order_index is left at its default
CopyClauseNoOrder(h, r) ==
    LET c == h[r]
        m == h[c.metadata]
        h1 == IF m.paragraphs # 0 THEN Append(h, h[m.paragraphs]) ELSE h
        p1 == IF m.paragraphs # 0 THEN Len(h1) ELSE 0
        h2 == IF m.legal_patches # 0 THEN Append(h1, h[m.legal_patches]) ELSE h1
        l2 == IF m.legal_patches # 0 THEN Len(h2) ELSE 0
        h3 == Append(h2, [m EXCEPT !.paragraphs = p1, !.legal_patches = l2])
    IN  Append(h3, [c EXCEPT !.metadata = Len(h3), !.order_index = 0])

\* _copy_clause: clause.model_copy(deep=True); the copy is the last object
\* of the heap returned
_copy_clause(h, r) ==
    LET c == h[r]
        m == h[c.metadata]
        h1 == IF m.paragraphs # 0 THEN Append(h, h[m.paragraphs]) ELSE h
        p1 == IF m.paragraphs # 0 THEN Len(h1) ELSE 0
        h2 == IF m.legal_patches # 0 THEN Append(h1, h[m.legal_patches]) ELSE h1
        l2 == IF m.legal_patches # 0 THEN Len(h2) ELSE 0
        h3 == Append(h2, [m EXCEPT !.paragraphs = p1, !.legal_patches = l2])
    IN  Append(h3, [c EXCEPT !.metadata = Len(h3)])

\* updated = [self._copy_clause(c) for c in clauses]
RECURSIVE CopyList(_, _)
CopyList(h, list) ==
    IF list = <<>> THEN [heap |-> h, list |-> <<>>]
    ELSE LET h1 == _copy_clause(h, Head(list))
             r == CopyList(h1, Tail(list))
         IN  [heap |-> r.heap, list |-> <<Len(h1)>> \o r.list]

\* mutant of FindTarget: the first clause is the default of next()
FindTargetDefaultFirst(h, updated, target_clause_id) ==
    LET hits == {i \in 1..Len(updated) : h[updated[i]].id = target_clause_id}
    IN  IF hits = {} THEN (IF Len(updated) > 0 THEN 1 ELSE 0)
        ELSE CHOOSE i \in hits : \A j \in hits : i <= j

\* next((c for c in updated if c.id == patch.target_clause_id), None): the
\* position in updated of the first clause with that id, 0 for None
FindTarget(h, updated, target_clause_id) ==
    LET hits == {i \in 1..Len(updated) : h[updated[i]].id = target_clause_id}
    IN  IF hits = {} THEN 0 ELSE CHOOSE i \in hits : \A j \in hits : i <= j

default_fmt == [bold |-> FALSE, italic |-> FALSE,
                alignment |-> "None", style |-> "None"]

\* (paragraphs[0].get("formatting") if paragraphs else None) or default_fmt
first_fmt(paragraphs) ==
    IF paragraphs # <<>> /\ paragraphs[1].formatting # EmptyDict
    THEN paragraphs[1].formatting ELSE default_fmt

\* mutant of last_fmt: paragraphs[0] is read instead of paragraphs[-1]
LastFmtIsFirst(paragraphs) ==
    IF paragraphs # <<>> /\ paragraphs[1].formatting # EmptyDict
    THEN paragraphs[1].formatting ELSE default_fmt

\* (paragraphs[-1].get("formatting") if paragraphs else None) or default_fmt
last_fmt(paragraphs) ==
    IF paragraphs # <<>> /\ paragraphs[Len(paragraphs)].formatting # EmptyDict
    THEN paragraphs[Len(paragraphs)].formatting ELSE default_fmt

ChangeTypes == {"replace", "insert_before", "insert_after", "append", "delete"}

\* mutant of NewParagraphs: replace inserts instead of overwriting
NewParagraphsReplaceInserts(paragraphs, patch) ==
    CASE patch.change_type \in {"replace", "insert_before"} ->
            << [text |-> patch.proposed_text, formatting |-> first_fmt(paragraphs)] >>
                \o paragraphs
      [] patch.change_type \in {"insert_after", "append"} ->
            Append(paragraphs,
                   [text |-> patch.proposed_text, formatting |-> last_fmt(paragraphs)])
      [] patch.change_type = "delete" -> <<>>

\* the branch of apply taken for patch.change_type: the new content of the
\* paragraphs list
NewParagraphs(paragraphs, patch) ==
    CASE patch.change_type = "replace" ->
            << [text |-> patch.proposed_text, formatting |-> first_fmt(paragraphs)] >>
      [] patch.change_type = "insert_before" ->
            << [text |-> patch.proposed_text, formatting |-> first_fmt(paragraphs)] >>
                \o paragraphs
      [] patch.change_type \in {"insert_after", "append"} ->
            Append(paragraphs,
                   [text |-> patch.proposed_text, formatting |-> last_fmt(paragraphs)])
      [] patch.change_type = "delete" -> <<>>

\* mutant of RenderText: "\n".join
RenderTextOneNewline(paragraphs) ==
    LET parts == [i \in 1..Len(paragraphs) |-> Strip(paragraphs[i].text)]
        Glue[n \in 0..Len(parts)] ==
            IF n = 0 THEN <<>>
            ELSE IF n = 1 THEN parts[1]
            ELSE Glue[n - 1] \o <<"\n">> \o parts[n]
    IN  Strip(Glue[Len(parts)])

\* "\n\n".join((p.get("text") or "").strip() for p in paragraphs).strip()
RenderText(paragraphs) ==
    Strip(JoinBlank([i \in 1..Len(paragraphs) |-> Strip(paragraphs[i].text)]))

\* mutant of _patch_dump: the proposed text is recorded trimmed
PatchDumpTrimmed(patch) ==
    [target_clause_id |-> patch.target_clause_id,
     change_type |-> patch.change_type,
     proposed_text |-> Strip(patch.proposed_text),
     reasoning |-> patch.reasoning]

\* _patch_dump: the dict of the patch's four fields
_patch_dump(patch) ==
    [target_clause_id |-> patch.target_clause_id,
     change_type |-> patch.change_type,
     proposed_text |-> patch.proposed_text,
     reasoning |-> patch.reasoning]

\* the body of apply after the target was found at reference t: rebuilds the
\* paragraphs list in place, sets target.text and records the patch
Rebuild(h, t, patch) ==
    LET m == h[t].metadata
        \* if not isinstance(paragraphs, list): a new list is stored
        h1 == IF h[m].paragraphs = 0
              THEN [Append(h, [kind |-> "list", items |-> <<>>])
                        EXCEPT ![m].paragraphs = Len(h) + 1]
              ELSE h
        p == h1[m].paragraphs
        items == NewParagraphs(h1[p].items, patch)
        h2 == [h1 EXCEPT ![p].items = items, ![t].text = RenderText(items)]
        \* target.metadata.setdefault("legal_patches", [])
        h3 == IF h2[m].legal_patches = 0
              THEN [Append(h2, [kind |-> "list", items |-> <<>>])
                        EXCEPT ![m].legal_patches = Len(h2) + 1]
              ELSE h2
        l == h3[m].legal_patches
    IN  [h3 EXCEPT ![l].items = Append(@, _patch_dump(patch))]

\* LegalPatchApplier.apply(clauses, patch): the heap after the call, the list
\* returned (<<>> when it raises) and the error raised ("" for none).
\* change_type is a LegalPatchChangeType, so the final else is not reached.
apply(h, list, patch) ==
    LET cp == CopyList(h, list)
        t == FindTarget(cp.heap, cp.list, patch.target_clause_id)
    IN  IF t = 0
        THEN [heap |-> cp.heap, updated |-> <<>>,
              error |-> "Unknown target_clause_id"]
        ELSE [heap |-> Rebuild(cp.heap, cp.list[t], patch),
              updated |-> cp.list, error |-> ""]

\* ------------------------------------------------------------------ parse
Init ==
    /\ doc = <<>>
    /\ clauses = <<>>
    /\ stack = <<>>
    /\ preamble_clause = None
    /\ pc = "scan"
    /\ refs = <<>>
    /\ heap = <<>>
    /\ cur = <<>>
    /\ calls = <<>>
    /\ id_order = <<>>
    /\ graph = EmptyGraph
    /\ export = NoExport

ScanState == [clauses |-> clauses, stack |-> stack,
              preamble_clause |-> preamble_clause]

\* the loop body of _parse_document on the next paragraph of a document of
\* at most n paragraphs
ScanUpTo(para, n) ==
    /\ pc = "scan"
    /\ Len(doc) < n
    /\ Strip(para.text) = <<>> \/ ~FormattingRaises(para)
    /\ doc' = Append(doc, para)
    /\ LET s == ScanStep(ScanState, para)
       IN  /\ clauses' = s.clauses
           /\ stack' = s.stack
           /\ preamble_clause' = s.preamble_clause
    /\ UNCHANGED <<pc, refs, heap, cur, calls>>
    /\ UNCHANGED storeVars

\* the loop body on a document of at most MaxParas paragraphs
Scan(para) == ScanUpTo(para, MaxParas)

\* if not text: continue
ScanBlank(para) ==
    /\ Strip(para.text) = <<>>
    /\ Scan(para)

\* if header: ... continue
ScanHeader(para) ==
    /\ Strip(para.text) # <<>>
    /\ _match_header(Strip(para.text)).matched
    /\ Scan(para)

\* a body paragraph
ScanBody(para) ==
    /\ Strip(para.text) # <<>>
    /\ ~_match_header(Strip(para.text)).matched
    /\ Scan(para)

\* formatting = self._extract_paragraph_formatting(para) raises: the
\* exception leaves _parse_document and no list is returned
ScanRaises(para) ==
    /\ pc = "scan"
    /\ Len(doc) < MaxParas
    /\ Strip(para.text) # <<>>
    /\ FormattingRaises(para)
    /\ doc' = Append(doc, para)
    /\ pc' = "failed"
    /\ UNCHANGED <<clauses, stack, preamble_clause, refs, heap, cur, calls>>
    /\ UNCHANGED storeVars

\* the end of doc.paragraphs: order_index is assigned and the list returned
Finalize ==
    /\ pc = "scan"
    /\ clauses' = AssignOrder(clauses)
    /\ pc' = "parsed"
    /\ UNCHANGED <<doc, stack, preamble_clause, refs, heap, cur, calls>>
    /\ UNCHANGED storeVars

\* references = parser.extract_references(clauses)
ExtractReferences ==
    /\ pc = "parsed"
    /\ refs' = extract_references(clauses)
    /\ pc' = "referenced"
    /\ UNCHANGED <<doc, clauses, stack, preamble_clause, heap, cur, calls>>
    /\ UNCHANGED storeVars

Next ==
    \/ \E para \in Paras : ScanBlank(para)
    \/ \E para \in Paras : ScanHeader(para)
    \/ \E para \in Paras : ScanBody(para)
    \/ \E para \in Paras : ScanRaises(para)
    \/ Finalize
    \/ ExtractReferences

Spec == Init /\ [][Next]_vars

\* ------------------------------------------------- the five-line document
PlainPara(text) == Para(text, NoAlign, <<PlainRun>>, "None")

\* "Article 1: Definitions", "Some body text.", "Article 2: Obligations",
\* "Section 2.1: Exceptions", "Exception text."; a word is the letter "a"
ExampleDoc ==
    << PlainPara(<<"Article", " ", "1", ":", " ", "a">>),
       PlainPara(<<"a", " ", "a", " ", "a", ".">>),
       PlainPara(<<"Article", " ", "2", ":", " ", "a">>),
       PlainPara(<<"Section", " ", "2", ".", "1", ":", " ", "a">>),
       PlainPara(<<"a", " ", "a", ".">>) >>

ExampleParas == {ExampleDoc[i] : i \in 1..Len(ExampleDoc)}

\* if header: ... continue, on a line of the five
ExampleHeader(para) ==
    /\ _match_header(Strip(para.text)).matched
    /\ ScanUpTo(para, Len(ExampleDoc))

\* a body paragraph, on a line of the five
ExampleBody(para) ==
    /\ ~_match_header(Strip(para.text)).matched
    /\ ScanUpTo(para, Len(ExampleDoc))

\* the parse of the documents made of the five lines, in any order
NextExample ==
    \/ \E para \in ExampleParas : ExampleHeader(para)
    \/ \E para \in ExampleParas : ExampleBody(para)
    \/ Finalize

SpecExample == Init /\ [][NextExample]_vars

ParaOf(text) == CHOOSE p \in Paras : p.text = text

\* ------------------------------------------------------ ingest and export
\* the paragraphs of the documents that are stored and exported
ExportParas ==
    { ParaOf(<<"Article", " ", "1">>),
      ParaOf(<<" ", "ARTICLE", " ", " ", "2", ":", "a">>),
      ParaOf(<<"Section", " ", "1">>),
      ParaOf(<<"a">>) }

\* the documents of up to MaxParas - 1 paragraphs
ExportDocs ==
    UNION {[1..n -> ExportParas] : n \in 0..(MaxParas - 1)}

\* the orders the strings of the ids of the clauses cs can have: uuid4
\* gives random ids, so every order
IdOrders(cs) ==
    {o \in [1..Len(cs) -> {cs[i].id : i \in 1..Len(cs)}] :
        \A i, j \in 1..Len(cs) : i # j => o[i] # o[j]}

\* POST /ingest up to the list returned by the parser
InitExport ==
    \E d \in ExportDocs :
        LET s == ScanAll(ScanInit, d)
        IN  /\ doc = d
            /\ clauses = AssignOrder(s.clauses)
            /\ stack = s.stack
            /\ preamble_clause = s.preamble_clause
            /\ pc = "parsed"
            /\ refs = <<>>
            /\ heap = <<>>
            /\ cur = <<>>
            /\ calls = <<>>
            /\ id_order \in IdOrders(s.clauses)
            /\ graph = EmptyGraph
            /\ export = NoExport

\* graph.ingest_document(document_id, file_name, clauses, references)
Ingest ==
    /\ pc = "referenced"
    /\ graph' = ingest_document(graph, DocumentId, clauses, refs)
    /\ pc' = "ingested"
    /\ UNCHANGED <<doc, clauses, stack, preamble_clause, refs, heap, cur,
                   calls, id_order, export>>

\* GET /export/{document_id} that returns the document
ExportDocx ==
    /\ export_to_docx(graph, DocumentId, id_order).status = "ok"
    /\ export' = export_to_docx(graph, DocumentId, id_order)
    /\ UNCHANGED <<doc, clauses, stack, preamble_clause, pc, refs, heap, cur,
                   calls, id_order, graph>>

\* GET /export/{document_id} that raises DocumentNotFoundError
ExportNotFound ==
    /\ export_to_docx(graph, DocumentId, id_order).status # "ok"
    /\ export' = export_to_docx(graph, DocumentId, id_order)
    /\ UNCHANGED <<doc, clauses, stack, preamble_clause, pc, refs, heap, cur,
                   calls, id_order, graph>>

NextExport ==
    \/ ExtractReferences
    \/ Ingest
    \/ ExportDocx
    \/ ExportNotFound

SpecExport == InitExport /\ [][NextExport]_vars

\* ------------------------------------------------------------ patch calls

\* the parsed documents the patches are applied to: a clause with two
\* paragraphs of different formatting; a Preamble followed by two headers
\* without body
PatchDocs ==
    { << ParaOf(<<"Article", " ", "1">>), ParaOf(<<"Section", " ", "1", "a">>),
         ParaOf(<<"a">>) >>,
      << ParaOf(<<"a">>), ParaOf(<<"Article", " ", "1">>),
         ParaOf(<<"Section", " ", "1">>) >> }

\* proposed_text: plain, whitespace-padded, empty
ProposedTexts == { <<"a">>, <<" ", "a", " ">>, <<>> }

\* the patches a caller can pass for the list: every clause id and an id
\* that no clause has
Patches(h, list) ==
    [target_clause_id : {h[list[i]].id : i \in 1..Len(list)} \cup {NewId(0)},
     change_type : ChangeTypes,
     proposed_text : ProposedTexts,
     reasoning : {"because"}]

InitPatch ==
    \E d \in PatchDocs :
        LET s == ScanAll(ScanInit, d)
            st == StoreList(<<>>, AssignOrder(s.clauses))
        IN  /\ doc = d
            /\ clauses = AssignOrder(s.clauses)
            /\ stack = s.stack
            /\ preamble_clause = s.preamble_clause
            /\ pc = "parsed"
            /\ refs = <<>>
            /\ heap = st.heap
            /\ cur = st.list
            /\ calls = <<>>
            /\ id_order = <<>>
            /\ graph = EmptyGraph
            /\ export = NoExport

\* the record of one call: the list passed and its value at the call, the
\* patch, and the list returned with its value at the return
Call(input, patch, r) ==
    [input |-> input, before |-> ListValue(heap, input), patch |-> patch,
     error |-> r.error, updated |-> r.updated,
     after |-> ListValue(r.heap, r.updated)]

\* a call of apply on the caller's current list that returns; the caller
\* goes on with the list returned
ApplyReturns(patch) ==
    /\ Len(calls) < MaxPatches
    /\ LET r == apply(heap, cur, patch)
       IN  /\ r.error = ""
           /\ heap' = r.heap
           /\ cur' = r.updated
           /\ calls' = Append(calls, Call(cur, patch, r))
    /\ UNCHANGED <<doc, clauses, stack, preamble_clause, pc, refs>>
    /\ UNCHANGED storeVars

\* a call of apply that raises; the caller keeps its list
ApplyRaises(patch) ==
    /\ Len(calls) < MaxPatches
    /\ LET r == apply(heap, cur, patch)
       IN  /\ r.error # ""
           /\ heap' = r.heap
           /\ calls' = Append(calls, Call(cur, patch, r))
    /\ UNCHANGED <<doc, clauses, stack, preamble_clause, pc, refs, cur>>
    /\ UNCHANGED storeVars

NextPatch ==
    \/ \E patch \in Patches(heap, cur) : ApplyReturns(patch)
    \/ \E patch \in Patches(heap, cur) : ApplyRaises(patch)

SpecPatch == InitPatch /\ [][NextPatch]_vars

\* ================================================================ claims
Level(c) == c.metadata.header.level
Type(c) == c.metadata.header.type

\* the paragraph is skipped / is a header line / is a body line
IsBlank(para) == Strip(para.text) = <<>>
IsHeader(para) == ~IsBlank(para) /\ _match_header(Strip(para.text)).matched
IsBody(para) == ~IsBlank(para) /\ ~_match_header(Strip(para.text)).matched

\* the parse has returned its list
Returned == pc \notin {"scan", "failed"}

\* C4: in a parsed document every clause with a non-null parent_id has its
\* parent earlier in the list, and the parent's header level is strictly
\* less than its own.
C4_NestingInvariant ==
    Returned =>
        \A i \in 1..Len(clauses) :
            clauses[i].parent_id # None =>
                \E j \in 1..(i - 1) :
                    /\ clauses[j].id = clauses[i].parent_id
                    /\ Level(clauses[j]) < Level(clauses[i])

\* a parsed document where a clause's parent is not the clause just before it
C4_Witness ==
    /\ pc = "parsed"
    /\ \E i \in 2..Len(clauses) :
          /\ clauses[i].parent_id # None
          /\ clauses[i].parent_id # clauses[i - 1].id

\* C5: the number of clauses returned is the number of header lines plus 1
\* if a non-blank non-header line precedes the first header (or there is no
\* header and there is a non-blank line), else plus 0.
C5_ClauseCount ==
    Returned =>
        LET headers == {i \in 1..Len(doc) : IsHeader(doc[i])}
            leading == \E i \in 1..Len(doc) :
                          /\ IsBody(doc[i])
                          /\ \A j \in headers : i < j
        IN  Len(clauses) = Cardinality(headers) + (IF leading THEN 1 ELSE 0)

\* a parsed document with two body lines and a blank line before a header
C5_Witness ==
    /\ pc = "parsed"
    /\ Len(doc) >= 4
    /\ Cardinality({i \in 1..Len(doc) : IsHeader(doc[i])}) = 1
    /\ Cardinality({i \in 1..Len(doc) : IsBody(doc[i])}) = 2
    /\ IsBody(doc[1])
    /\ IsHeader(doc[Len(doc)])

\* C6: in a parse returning N clauses the clause at list position i has
\* order_index i, so the values are 0..N-1, increasing in list order.
C6_OrderIndex ==
    Returned =>
        \A i \in 1..Len(clauses) : clauses[i].order_index = i - 1

\* a parsed document of three clauses or more
C6_Witness == pc = "parsed" /\ Len(clauses) >= 3

\* the title lookup: the id of the clause the key resolves to, None when no
\* title has the key
Lookup(cs, key) ==
    LET same == {j \in 1..Len(cs) : _header_key(cs[j].title) = key}
    IN  IF same = {} THEN None
        ELSE cs[CHOOSE j \in same : \A k \in same : k <= j].id

\* the position in cs of the clause with the id
PosOf(cs, id) == CHOOSE i \in 1..Len(cs) : cs[i].id = id

\* C9: extract_references returns one reference {src, dst, kind} for each
\* in-text mention whose key resolves to a clause other than the mentioning
\* one, and nothing else: no self-reference, every dst is a clause whose
\* title has the key kind, unresolved mentions are dropped, repeated
\* mentions are kept, and the order is clause order, then match order.
C9_References ==
    pc = "referenced" =>
        /\ \A n \in 1..Len(refs) :
              /\ refs[n].dst # refs[n].src
              /\ \E i \in 1..Len(clauses) : clauses[i].id = refs[n].src
              /\ \E j \in 1..Len(clauses) :
                    /\ clauses[j].id = refs[n].dst
                    /\ _header_key(clauses[j].title) = refs[n].kind
        /\ \A n \in 1..(Len(refs) - 1) :
              PosOf(clauses, refs[n].src) <= PosOf(clauses, refs[n + 1].src)
        /\ \A i \in 1..Len(clauses) :
              LET OfClause(r) == r.src = clauses[i].id
                  Resolved(k) == /\ Lookup(clauses, k) # None
                                 /\ Lookup(clauses, k) # clauses[i].id
                  mine == SelectSeq(refs, OfClause)
                  keys == SelectSeq(_find_reference_keys(clauses[i].text), Resolved)
              IN  /\ Len(mine) = Len(keys)
                  /\ \A n \in 1..Len(mine) :
                        /\ mine[n].kind = keys[n]
                        /\ mine[n].dst = Lookup(clauses, keys[n])

\* references extracted from a list where one clause mentions itself and
\* another clause, and a mention is repeated
C9_Witness ==
    /\ pc = "referenced"
    /\ Len(refs) >= 2
    /\ \E i \in 1..Len(clauses) :
          \E n \in 1..Len(_find_reference_keys(clauses[i].text)) :
              Lookup(clauses, _find_reference_keys(clauses[i].text)[n]) = clauses[i].id
    /\ \E i \in 1..Len(clauses) :
          \E n \in 1..Len(_find_reference_keys(clauses[i].text)) :
              Lookup(clauses, _find_reference_keys(clauses[i].text)[n]) = None
    /\ \E n \in 1..(Len(refs) - 1) : refs[n] = refs[n + 1]

\* C10 as stated: a clause of a parsed document has a null parent_id only if
\* it is an article or the Preamble; no section has a null parent_id.
C10_NullParentOnlyRoot ==
    Returned =>
        \A i \in 1..Len(clauses) :
            clauses[i].parent_id = None =>
                Type(clauses[i]) \in {"article", "preamble"}

\* C10 amended: a clause of a parsed document has a null parent_id only if it
\* is an article, the Preamble, or a section that no article header precedes
\* in the list; a section after an article has a parent.
C10_NullParentAmended ==
    Returned =>
        \A i \in 1..Len(clauses) :
            clauses[i].parent_id = None =>
                \/ Type(clauses[i]) \in {"article", "preamble"}
                \/ /\ Type(clauses[i]) = "section"
                   /\ \A j \in 1..(i - 1) : Type(clauses[j]) # "article"

\* a parsed document with a parentless section, and one where a section
\* follows a deeper section under an article
C10_Witness ==
    /\ pc = "parsed"
    /\ \E i \in 1..Len(clauses) :
          /\ Type(clauses[i]) = "section"
          /\ clauses[i].parent_id = None
    /\ \E i \in 2..Len(clauses) :
          /\ Type(clauses[i]) = "section"
          /\ clauses[i].parent_id # None
          /\ Level(clauses[i - 1]) > Level(clauses[i])

\* the text a paragraphs list renders to when its entries are joined with a
\* blank line and the result is trimmed
JoinedText(paragraphs) ==
    Strip(JoinBlank([i \in 1..Len(paragraphs) |-> paragraphs[i].text]))

\* the same, each entry trimmed before the join
JoinedTrimmedText(paragraphs) ==
    Strip(JoinBlank([i \in 1..Len(paragraphs) |-> Strip(paragraphs[i].text)]))

\* C1 as stated: the text of every clause of a parsed list, and of every list
\* obtained from it by Patch Applier calls, is its paragraphs' texts joined
\* with a blank line and trimmed.
C1_TextIsJoinedParagraphs ==
    /\ \A i \in 1..Len(clauses) :
          clauses[i].text = JoinedText(clauses[i].metadata.paragraphs)
    /\ \A i \in 1..Len(cur) :
          ClauseValue(heap, cur[i]).text
              = JoinedText(ClauseValue(heap, cur[i]).metadata.paragraphs)

\* C1 amended: the text of every such clause is its paragraphs' texts, each
\* trimmed, joined with a blank line, and trimmed.
C1_TextIsJoinedTrimmedParagraphs ==
    /\ \A i \in 1..Len(clauses) :
          clauses[i].text = JoinedTrimmedText(clauses[i].metadata.paragraphs)
    /\ \A i \in 1..Len(cur) :
          ClauseValue(heap, cur[i]).text
              = JoinedTrimmedText(ClauseValue(heap, cur[i]).metadata.paragraphs)

\* a patched clause with a whitespace-padded paragraph after its first one
C1_Witness ==
    /\ Len(calls) >= 1
    /\ \E i \in 1..Len(cur) :
          LET ps == ClauseValue(heap, cur[i]).metadata.paragraphs
          IN  /\ Len(ps) >= 2
              /\ \E n \in 2..Len(ps) :
                    /\ ps[n].text # Strip(ps[n].text)
                    /\ Strip(ps[n].text) # <<>>

\* calls n and n + 1 apply the same replace patch, one on the result of the
\* other
ReplacedTwice(n) ==
    /\ calls[n].error = ""
    /\ calls[n + 1].error = ""
    /\ calls[n + 1].input = calls[n].updated
    /\ calls[n + 1].patch = calls[n].patch
    /\ calls[n].patch.change_type = "replace"

\* C2 as stated: a replace patch applied twice gives the same clause list,
\* complete metadata included, as applied once.
C2_ReplaceTwiceSameState ==
    \A n \in 1..(Len(calls) - 1) :
        ReplacedTwice(n) => calls[n + 1].after = calls[n].after

\* the clause value c with the patch recorded once more in its history
Recorded(c, patch) ==
    [c EXCEPT !.metadata.has_legal_patches = TRUE,
              !.metadata.legal_patches = Append(@, _patch_dump(patch))]

\* C2 amended: a replace patch applied twice gives the same clause list as
\* applied once in every field but the target's legal_patches history,
\* which holds the patch once more.
C2_ReplaceTwiceSameButHistory ==
    \A n \in 1..(Len(calls) - 1) :
        ReplacedTwice(n) =>
            LET once == calls[n].after
                twice == calls[n + 1].after
                t == CHOOSE i \in 1..Len(once) :
                        once[i].id = calls[n].patch.target_clause_id
            IN  /\ Len(twice) = Len(once)
                /\ \A i \in 1..Len(once) :
                      twice[i] = IF i = t THEN Recorded(once[i], calls[n].patch)
                                 ELSE once[i]

\* a replace patch applied twice to a clause that had two paragraphs
C2_Witness ==
    /\ Len(calls) >= 2
    /\ ReplacedTwice(1)
    /\ \E i \in 1..Len(calls[1].before) :
          /\ calls[1].before[i].id = calls[1].patch.target_clause_id
          /\ Len(calls[1].before[i].metadata.paragraphs) = 2
    /\ calls[1].patch.proposed_text # <<>>

\* C3: a Patch Applier call never changes its input list: every clause of
\* the list passed to a call, returning or failing, has the value it had at
\* the call, whatever was done since, and shares no object with the list
\* returned.
C3_InputUntouched ==
    \A n \in 1..Len(calls) :
        /\ ListValue(heap, calls[n].input) = calls[n].before
        /\ Reach(heap, calls[n].input) \cap Reach(heap, calls[n].updated) = {}

\* two calls that returned, the second one changing again the clause the
\* first one changed
C3_Witness ==
    /\ Len(calls) = 2
    /\ calls[1].error = ""
    /\ calls[2].error = ""
    /\ calls[1].patch.target_clause_id = calls[2].patch.target_clause_id
    /\ calls[1].after # calls[1].before
    /\ calls[2].after # calls[2].before
    /\ ListValue(heap, calls[1].updated) = calls[1].after

\* C7: a call that returns gives a list of the same length with the same ids
\* in the same order (also for delete); every clause but the target equals
\* its input clause in every field, and the target keeps id, title,
\* parent_id, order_index and header metadata.
C7_Frame ==
    \A n \in 1..Len(calls) :
        calls[n].error = "" =>
            LET b == calls[n].before
                a == calls[n].after
            IN  /\ Len(a) = Len(b)
                /\ \A i \in 1..Len(b) :
                      /\ a[i].id = b[i].id
                      /\ a[i].title = b[i].title
                      /\ a[i].parent_id = b[i].parent_id
                      /\ a[i].order_index = b[i].order_index
                      /\ a[i].metadata.header = b[i].metadata.header
                      /\ a[i].metadata.header_formatting
                            = b[i].metadata.header_formatting
                      /\ b[i].id # calls[n].patch.target_clause_id => a[i] = b[i]

\* a delete patch applied to the last of three clauses, which had content
C7_Witness ==
    \E n \in 1..Len(calls) :
        /\ calls[n].error = ""
        /\ calls[n].patch.change_type = "delete"
        /\ Len(calls[n].before) = 3
        /\ calls[n].before[3].id = calls[n].patch.target_clause_id
        /\ calls[n].before[3].text # <<>>
        /\ calls[n].after[3].text = <<>>

\* the ids of the clauses of the list
IdsOf(h, list) == {h[list[i]].id : i \in 1..Len(list)}

\* C8: a call whose target_clause_id is the id of no clause of the list
\* fails with the target-not-found error and returns no list; nothing is
\* rebuilt: every object that existed keeps its content, the copies made
\* equal the clauses they were made of, and the caller's list is the same.
C8_UnknownTarget ==
    [][ (/\ Len(calls') = Len(calls) + 1
         /\ calls'[Len(calls')].patch.target_clause_id \notin IdsOf(heap, cur))
        => /\ calls'[Len(calls')].error = "Unknown target_clause_id"
           /\ calls'[Len(calls')].updated = <<>>
           /\ cur' = cur
           /\ SubSeq(heap', 1, Len(heap)) = heap
           /\ \A r \in (Len(heap) + 1)..Len(heap') :
                 heap'[r].kind = "Clause" =>
                    \E i \in 1..Len(cur) :
                        ClauseValue(heap', r) = ClauseValue(heap, cur[i]) ]_vars

\* a call with an unknown target made on a list that a patch was applied to
C8_Witness ==
    /\ Len(calls) = 2
    /\ calls[1].error = ""
    /\ calls[2].error # ""
    /\ calls[2].patch.target_clause_id
          \notin {calls[2].before[i].id : i \in 1..Len(calls[2].before)}

\* the clause with the id in a clause list value
ClauseWithId(cs, id) == cs[CHOOSE i \in 1..Len(cs) : cs[i].id = id]

\* C11: insert_after and append give the same paragraphs list and text: the
\* old paragraphs followed by one new last paragraph that holds
\* proposed_text with the formatting of the last old paragraph, or the
\* default all-false/null formatting when the clause had no paragraph.
C11_AppendLikeInsertAfter ==
    \A n \in 1..Len(calls) :
        (/\ calls[n].error = ""
         /\ calls[n].patch.change_type \in {"insert_after", "append"}) =>
            LET old == ClauseWithId(calls[n].before,
                                    calls[n].patch.target_clause_id)
                new == ClauseWithId(calls[n].after,
                                    calls[n].patch.target_clause_id)
                ps == old.metadata.paragraphs
                fmt == IF ps = <<>>
                       THEN [bold |-> FALSE, italic |-> FALSE,
                             alignment |-> "None", style |-> "None"]
                       ELSE ps[Len(ps)].formatting
            IN  /\ new.metadata.paragraphs =
                      Append(ps, [text |-> calls[n].patch.proposed_text,
                                  formatting |-> fmt])
                /\ new.text = JoinedTrimmedText(new.metadata.paragraphs)

\* an append to a clause whose last paragraph is bold and differs in
\* formatting from its first one, after an insert_after into that clause
C11_Witness ==
    /\ Len(calls) = 2
    /\ calls[1].error = ""
    /\ calls[2].error = ""
    /\ calls[1].patch.change_type = "insert_after"
    /\ calls[2].patch.change_type = "append"
    /\ LET ps == ClauseWithId(calls[2].before,
                              calls[2].patch.target_clause_id).metadata.paragraphs
           qs == ClauseWithId(calls[2].after,
                              calls[2].patch.target_clause_id).metadata.paragraphs
       IN  /\ Len(ps) >= 2
           /\ ps[1].formatting # ps[Len(ps)].formatting
           /\ qs[Len(qs)].formatting.bold

\* the patches of the successful calls n, n + 1, ... that target the id
RECURSIVE AppliedTo(_, _)
AppliedTo(id, n) ==
    IF n > Len(calls) THEN <<>>
    ELSE (IF calls[n].error = "" /\ calls[n].patch.target_clause_id = id
          THEN <<calls[n].patch>> ELSE <<>>) \o AppliedTo(id, n + 1)

\* C12: after any sequence of chained Patch Applier calls the legal_patches
\* history of each clause is the sequence of the full contents of the
\* patches successfully applied to it, in application order; a failed call
\* adds no entry and the list exists from the first applied patch on.
C12_PatchHistory ==
    \A i \in 1..Len(cur) :
        LET c == ClauseValue(heap, cur[i])
        IN  /\ c.metadata.legal_patches = AppliedTo(c.id, 1)
            /\ c.metadata.has_legal_patches <=> AppliedTo(c.id, 1) # <<>>

\* two different patches applied to one clause, a whitespace-padded one last
C12_Witness ==
    /\ Len(calls) = 2
    /\ calls[1].error = ""
    /\ calls[2].error = ""
    /\ calls[1].patch.target_clause_id = calls[2].patch.target_clause_id
    /\ calls[1].patch.change_type # calls[2].patch.change_type
    /\ calls[2].patch.proposed_text # Strip(calls[2].patch.proposed_text)
    /\ \E i \in 1..Len(cur) :
          Len(ClauseValue(heap, cur[i]).metadata.legal_patches) = 2

\* the positions of the header lines read so far
HeaderLines == {i \in 1..Len(doc) : IsHeader(doc[i])}

\* a body line was read before any header line
HasLeadingBody ==
    \E i \in 1..Len(doc) : IsBody(doc[i]) /\ \A h \in HeaderLines : i < h

\* the list position of the clause created for the header line h
ClauseOfHeader(h) ==
    Cardinality({g \in HeaderLines : g <= h}) + (IF HasLeadingBody THEN 1 ELSE 0)

\* the list position of the clause the body line i belongs to by the claim:
\* the clause of the last header line before it, else the Preamble clause
ClauseOfBody(i) ==
    LET earlier == {h \in HeaderLines : h < i}
    IN  IF earlier = {} THEN 1
        ELSE ClauseOfHeader(CHOOSE h \in earlier : \A g \in earlier : g <= h)

\* the trimmed texts of the body lines i, i + 1, ... that belong to clause j
RECURSIVE BodyTextsOf(_, _)
BodyTextsOf(j, i) ==
    IF i > Len(doc) THEN <<>>
    ELSE (IF IsBody(doc[i]) /\ ClauseOfBody(i) = j
          THEN <<Strip(doc[i].text)>> ELSE <<>>) \o BodyTextsOf(j, i + 1)

\* C16: at every step of the scan the stack has strictly increasing levels
\* from bottom to top, is not empty once a header was read, and its top is
\* the header clause created last; each clause on the stack has the entry
\* below it as parent; every body line after the first header is in the
\* clause of the last header before it, and the Preamble clause (at most
\* one, first in the list) holds the lines before the first header only.
C16_StackDiscipline ==
    pc # "failed" =>
        /\ \A k \in 1..(Len(stack) - 1) : stack[k].level < stack[k + 1].level
        /\ HeaderLines # {} =>
              /\ Len(stack) > 0
              /\ stack[Len(stack)].clause = Len(clauses)
              /\ Type(clauses[Len(clauses)]) # "preamble"
        /\ \A k \in 1..Len(stack) :
              /\ stack[k].level = Level(clauses[stack[k].clause])
              /\ clauses[stack[k].clause].parent_id =
                    IF k = 1 THEN None ELSE clauses[stack[k - 1].clause].id
        /\ \A j \in 1..Len(clauses) :
              /\ Type(clauses[j]) = "preamble" => j = 1
              /\ [n \in 1..Len(clauses[j].metadata.paragraphs) |->
                      clauses[j].metadata.paragraphs[n].text] = BodyTextsOf(j, 1)

\* a scan in progress that closed a deeper section, has two open clauses and
\* has just put a body line into the upper one
C16_Witness ==
    /\ pc = "scan"
    /\ Len(stack) = 2
    /\ Len(clauses) = 3
    /\ stack[1].clause = 1
    /\ stack[2].clause = 3
    /\ Level(clauses[2]) > Level(clauses[3])
    /\ Len(clauses[3].metadata.paragraphs) = 1
    /\ IsBody(doc[Len(doc)])

\* C17: when several clauses have titles with the same header key the
\* lookup keeps the last one: every mention of the key, in any other clause,
\* gives a reference to that last clause, also a mention inside an earlier
\* clause with the same key, and no reference has an earlier clause with
\* the key as dst.
C17_LastTitleWins ==
    pc = "referenced" =>
        /\ \A n \in 1..Len(refs) :
              \A j \in 1..Len(clauses) :
                  _header_key(clauses[j].title) = refs[n].kind =>
                      j <= PosOf(clauses, refs[n].dst)
        /\ \A i \in 1..Len(clauses) :
              LET keys == _find_reference_keys(clauses[i].text)
              IN  \A n \in 1..Len(keys) :
                      \A j \in 1..Len(clauses) :
                          (/\ j # i
                           /\ _header_key(clauses[j].title) = keys[n]
                           /\ \A k \in (j + 1)..Len(clauses) :
                                 _header_key(clauses[k].title) # keys[n])
                          => \E m \in 1..Len(refs) :
                                refs[m] = [src |-> clauses[i].id,
                                           dst |-> clauses[j].id,
                                           kind |-> keys[n]]

\* two clauses with the same key, the earlier one mentioning the key: the
\* reference goes from the earlier one to the later one
C17_Witness ==
    /\ pc = "referenced"
    /\ \E i \in 1..Len(clauses) :
          \E j \in (i + 1)..Len(clauses) :
              /\ _header_key(clauses[i].title) # <<>>
              /\ _header_key(clauses[i].title) = _header_key(clauses[j].title)
              /\ \E m \in 1..Len(refs) :
                    refs[m] = [src |-> clauses[i].id, dst |-> clauses[j].id,
                               kind |-> _header_key(clauses[i].title)]

\* the clause with the given title
ClauseTitled(title) ==
    clauses[CHOOSE i \in 1..Len(clauses) : clauses[i].title = title]

HasTitled(title) == \E i \in 1..Len(clauses) : clauses[i].title = title

\* what the five lines have in common for any number of clauses and any
\* level of Section 2.1: the two articles are roots of level 1, the section
\* is a child of Article 2, and the two body lines are the texts of
\* Article 1 and of Section 2.1
ExampleTree(n, sectionLevel) ==
    /\ Len(clauses) = n
    /\ HasTitled(ExampleDoc[1].text)
    /\ HasTitled(ExampleDoc[3].text)
    /\ HasTitled(ExampleDoc[4].text)
    /\ LET a1 == ClauseTitled(ExampleDoc[1].text)
           a2 == ClauseTitled(ExampleDoc[3].text)
           s21 == ClauseTitled(ExampleDoc[4].text)
       IN  /\ a1.parent_id = None /\ Level(a1) = 1
           /\ a2.parent_id = None /\ Level(a2) = 1
           /\ s21.parent_id = a2.id /\ Level(s21) = sectionLevel
           /\ a1.text = ExampleDoc[2].text
           /\ a2.text = <<>>
           /\ s21.text = ExampleDoc[5].text

\* C15 as stated: the five lines give 4 clauses and Section 2.1 has level 2;
\* the parse gives 3 clauses and Section 2.1 has level 3
C15_ExampleFourClauses ==
    (doc = ExampleDoc /\ pc = "parsed") => ExampleTree(4, 2)

\* C15: parsing the five lines gives 3 clauses; Article 1 and Article 2
\* have a null parent and level 1, Section 2.1 has the id of Article 2 as
\* parent and level 3, "Some body text." is the body of Article 1 and
\* "Exception text." the body of Section 2.1.
C15_ExampleThreeClauses ==
    (doc = ExampleDoc /\ pc = "parsed") => ExampleTree(3, 3)

\* the five lines in their order, parsed
C15_Witness ==
    /\ doc = ExampleDoc
    /\ pc = "parsed"
    /\ Len(clauses) = 3
    /\ clauses[3].title = ExampleDoc[4].text

\* the descriptor of the line read last: the header_formatting of the new
\* clause, or the formatting of the last paragraph of the current container
LastFormatting ==
    IF IsHeader(doc[Len(doc)])
    THEN clauses[Len(clauses)].metadata.header_formatting
    ELSE LET c == clauses[CurrentContainer(ScanState)]
         IN  c.metadata.paragraphs[Len(c.metadata.paragraphs)].formatting

\* a flag is set by some run whose flag can be read and is True
FlagSet(para, flag) ==
    \E i \in 1..Len(para.runs) : para.runs[i][flag] = "True"

\* the descriptor C14 promises: a field that cannot be read is null
\* (alignment, style) or does not count (bold, italic)
DegradedFormatting(para) ==
    [bold |-> FlagSet(para, "bold"),
     italic |-> FlagSet(para, "italic"),
     alignment |-> IF para.alignment \in AlignValues
                   THEN AlignName(para.alignment) ELSE "None",
     style |-> IF para.style = "Raises" THEN "None" ELSE para.style]

\* C14 as stated: formatting extraction never fails the parse; for every
\* paragraph with text the descriptor is stored with null for an alignment
\* or style that cannot be read and false for bold and italic flags that
\* cannot be read, and the scan goes on. The parse fails when the read of
\* the alignment or of a run flag raises, and an alignment value the enum
\* rejects is stored as its string.
C14_FormattingNeverFails ==
    /\ pc # "failed"
    /\ (pc = "scan" /\ doc # <<>> /\ ~IsBlank(doc[Len(doc)])) =>
           LastFormatting = DegradedFormatting(doc[Len(doc)])

\* the clauses export_to_docx has emitted blocks for: the clauses the
\* document contains directly
RECURSIVE ExportedClauses(_)
ExportedClauses(cs) ==
    IF cs = <<>> THEN <<>>
    ELSE (IF [document |-> DocumentId, clause |-> cs[1].id] \in graph.contains
          THEN <<cs[1]>> ELSE <<>>) \o ExportedClauses(Tail(cs))

\* C13 as stated: an export emits, for the exported clauses in order_index
\* order, one heading block per non-empty title and one paragraph block per
\* non-empty text. The export orders the clauses by id, and the ids are
\* random.
C13_ExportInOrderIndexOrder ==
    export.status = "ok" =>
        /\ \A i \in 1..(Len(clauses) - 1) :
              clauses[i].order_index < clauses[i + 1].order_index
        /\ export.blocks = BlocksOfRecords(ExportedClauses(clauses))

====
